---------------------------- MODULE Spec2Model ----------------------------
(***************************************************************************)
(* Model of the persistence layer of the AtCoder Problems scraper,         *)
(* atcoder-problems-scraper/src/sql.rs: SqlClient and its six operations   *)
(* over the contests, problems and submissions tables of a PostgreSQL      *)
(* store.                                                                  *)
(*                                                                         *)
(* Every operation is `let conn = self.connect()?; <statement>.execute /   *)
(* .load(&conn).map_err(..)`: it blocks once while the session is          *)
(* established and once while the single statement runs.  A call is        *)
(* therefore modelled by the steps                                         *)
(*     idle -> connecting -> executing -> ok | failed -> idle              *)
(* and the statement itself takes effect in one step (one SQL statement    *)
(* in autocommit mode).                                                    *)
(***************************************************************************)
EXTENDS Integers, Sequences, FiniteSets, TLC

\* Longest batch (and so the most records one statement carries).
MaxBatch == 2

(***************************************************************************)
(* Record models (crate::{Contest, Problem, Submission}).  An Option is a  *)
(* sequence of length at most one: None is << >>, Some(v) is <<v>>.        *)
(***************************************************************************)
Callers == {"scraper"}

SubmissionIds == {1, 2}
UserIds == {"kenkoooo", "ooooknek"}
UnknownUser == "no-such-user"

\* The immutable remainder of a submission: the values of the tests, and a
\* second observation that differs from them in every field.
SubmissionRests ==
    { [epoch_second |-> 0, problem_id |-> "", contest_id |-> "", language |-> "",
       point |-> 0, length |-> 0, result |-> "", execution_time |-> << >>],
      [epoch_second |-> 1, problem_id |-> "arc001_a", contest_id |-> "arc001",
       language |-> "Rust", point |-> 100, length |-> 256, result |-> "AC",
       execution_time |-> <<10>>] }

Submission(id, user_id, rest) ==
    [id |-> id, epoch_second |-> rest.epoch_second, problem_id |-> rest.problem_id,
     contest_id |-> rest.contest_id, user_id |-> user_id, language |-> rest.language,
     point |-> rest.point, length |-> rest.length, result |-> rest.result,
     execution_time |-> rest.execution_time]

Submissions ==
    { Submission(id, u, rest) : id \in SubmissionIds, u \in UserIds, rest \in SubmissionRests }

ContestIds == {"arc001", "arc002"}

Contests ==
    { [id |-> id, start_epoch_second |-> v[1], duration_second |-> v[2],
       title |-> v[3], rate_change |-> v[4]] :
        id \in ContestIds, v \in { <<0, 0, "Contest 1", "-">>, <<1, 60, "Contest 2", "All">> } }

ProblemIds == {"arc001_a", "arc001_b"}

Problems ==
    { [id |-> id, contest_id |-> v[1], title |-> v[2]] :
        id \in ProblemIds, v \in { <<"arc001", "Problem 1">>, <<"arc002", "Problem 2">> } }

\* The slices a caller may pass: every sequence of at most MaxBatch records.
Batches(S) == UNION { [1..n -> S] : n \in 0..MaxBatch }

(***************************************************************************)
(* Schema bindings (crate::schema and the Insertable / Queryable derives   *)
(* of the record models).  A stored row is the tuple of its columns in     *)
(* table order; a nullable column holds the empty set for NULL and {v}     *)
(* for the value v.  Insertable binds fields to columns by name, Queryable *)
(* reads the selected columns back by position.                            *)
(***************************************************************************)
ToNullable(opt) == IF opt = << >> THEN {} ELSE {opt[1]}

FromNullable(col) == IF col = {} THEN << >> ELSE <<CHOOSE v \in col : TRUE>>

SubmissionToRow(s) ==
    <<s.id, s.epoch_second, s.problem_id, s.contest_id, s.user_id, s.language,
      s.point, s.length, s.result, ToNullable(s.execution_time)>>

RowToSubmission(r) ==
    [id |-> r[1], epoch_second |-> r[2], problem_id |-> r[3], contest_id |-> r[4],
     user_id |-> r[5], language |-> r[6], point |-> r[7], length |-> r[8],
     result |-> r[9], execution_time |-> FromNullable(r[10])]

ContestToRow(c) ==
    <<c.id, c.start_epoch_second, c.duration_second, c.title, c.rate_change>>

RowToContest(r) ==
    [id |-> r[1], start_epoch_second |-> r[2], duration_second |-> r[3],
     title |-> r[4], rate_change |-> r[5]]

ProblemToRow(p) == <<p.id, p.contest_id, p.title>>

RowToProblem(r) == [id |-> r[1], contest_id |-> r[2], title |-> r[3]]

\* The columns the statements name: submissions::id, contests::id and
\* problems::id are each the first column of their table.
SubmissionsId(row) == row[1]
SubmissionsUserId(row) == row[5]
ContestsId(row) == row[1]
ProblemsId(row) == row[1]

(***************************************************************************)
(* The statements, as PostgreSQL executes them.  A multi-row INSERT .. ON  *)
(* CONFLICT processes its VALUES rows in order against the table as the    *)
(* earlier rows of the same statement left it.                             *)
(***************************************************************************)

\* INSERT .. ON CONFLICT (id) DO NOTHING: a row whose key is present (in the
\* table or from an earlier row of the statement) is skipped.  The count is
\* the number of rows inserted.
RECURSIVE OnConflictDoNothing(_, _)
OnConflictDoNothing(table, rows) ==
    IF rows = << >> THEN [table |-> table, count |-> 0]
    ELSE LET r == Head(rows)
         IN IF \E t \in table : t[1] = r[1]
            THEN OnConflictDoNothing(table, Tail(rows))
            ELSE LET rest == OnConflictDoNothing(table \cup {r}, Tail(rows))
                 IN [table |-> rest.table, count |-> rest.count + 1]

\* Mutant (C1): the conflict action overwrites every column.
DoUpdateSet_AllColumns(existing, excluded) == excluded

\* Mutant (C2): the conflict action leaves the stored row alone.
DoUpdateSet_Nothing(existing, excluded) == existing

\* .set(submissions::user_id.eq(excluded(submissions::user_id)))
DoUpdateSet(existing, excluded) ==
    [existing EXCEPT ![5] = SubmissionsUserId(excluded)]

\* INSERT .. ON CONFLICT (id) DO UPDATE SET ..: a row whose key is present is
\* updated from the proposed row and counts as affected.  A key the statement
\* itself already inserted or updated raises cardinality_violation ("ON
\* CONFLICT DO UPDATE command cannot affect row a second time").  `touched`
\* holds the keys this statement has written so far.
RECURSIVE OnConflictDoUpdate(_, _, _)
OnConflictDoUpdate(table, rows, touched) ==
    IF rows = << >> THEN [error |-> FALSE, table |-> table, count |-> 0]
    ELSE LET r == Head(rows)
             hit == {t \in table : SubmissionsId(t) = SubmissionsId(r)}
         IN IF SubmissionsId(r) \in touched
            THEN [error |-> TRUE, table |-> table, count |-> 0]
            ELSE LET next == IF hit = {} THEN table \cup {r}
                             ELSE (table \ hit) \cup {DoUpdateSet(t, r) : t \in hit}
                     rest == OnConflictDoUpdate(next, Tail(rows),
                                                touched \cup {SubmissionsId(r)})
                 IN IF rest.error THEN rest
                    ELSE [error |-> FALSE, table |-> rest.table, count |-> rest.count + 1]

\* Mutant (C5): only the first record of the slice is sent.
InsertSubmissionsStmt_FirstOnly(table, values) ==
    LET r == OnConflictDoUpdate(table,
                 [i \in 1..(IF Len(values) = 0 THEN 0 ELSE 1) |-> SubmissionToRow(values[i])], {})
    IN IF r.error THEN [error |-> TRUE, table |-> table, count |-> 0] ELSE r

\* Mutant (C10): the count is that of the rows inserted, updates left out.
InsertSubmissionsStmt_CountInserted(table, values) ==
    LET r == OnConflictDoUpdate(table, [i \in 1..Len(values) |-> SubmissionToRow(values[i])], {})
    IN IF r.error THEN [error |-> TRUE, table |-> table, count |-> 0]
       ELSE [error |-> FALSE, table |-> r.table,
             count |-> Cardinality(r.table) - Cardinality(table)]

\* Mutant (C11): a statement that raises keeps the rows written before the
\* error.
InsertSubmissionsStmt_NoRollback(table, values) ==
    OnConflictDoUpdate(table, [i \in 1..Len(values) |-> SubmissionToRow(values[i])], {})

\* Mutant (C13): an INSERT without rows is sent as it is and the store
\* rejects it.
InsertSubmissionsStmt_EmptyIsError(table, values) ==
    LET r == OnConflictDoUpdate(table, [i \in 1..Len(values) |-> SubmissionToRow(values[i])], {})
    IN IF r.error \/ values = << >> THEN [error |-> TRUE, table |-> table, count |-> 0] ELSE r

\* insert_into(submissions::table).values(values).on_conflict(submissions::id)
\*     .do_update().set(..).execute(&conn)
\* A statement that raises leaves the table as it was.
InsertSubmissionsStmt(table, values) ==
    LET r == OnConflictDoUpdate(table, [i \in 1..Len(values) |-> SubmissionToRow(values[i])], {})
    IN IF r.error THEN [error |-> TRUE, table |-> table, count |-> 0] ELSE r

\* Mutant (C3): on conflict the stored contest is replaced, the last record
\* of an id winning.
InsertContestsStmt_LastWins(table, values) ==
    LET rows == [i \in 1..Len(values) |-> ContestToRow(values[i])]
        last == {rows[i] : i \in {k \in DOMAIN rows :
                                    \A j \in (k + 1)..Len(rows) : rows[j][1] # rows[k][1]}}
        kept == {t \in table : \A r \in last : r[1] # t[1]}
    IN [table |-> kept \cup last, count |-> Cardinality(kept \cup last) - Cardinality(table)]

\* Mutant (C9): the count is the length of the batch.
InsertContestsStmt_CountAll(table, values) ==
    [table |-> OnConflictDoNothing(table,
                   [i \in 1..Len(values) |-> ContestToRow(values[i])]).table,
     count |-> Len(values)]

\* Mutant (C14): the rows are inserted one by one and the first conflict
\* ends the insertion.
RECURSIVE StopAtConflict(_, _)
StopAtConflict(table, rows) ==
    IF rows = << >> THEN [table |-> table, count |-> 0]
    ELSE LET r == Head(rows)
         IN IF \E t \in table : t[1] = r[1]
            THEN [table |-> table, count |-> 0]
            ELSE LET rest == StopAtConflict(table \cup {r}, Tail(rows))
                 IN [table |-> rest.table, count |-> rest.count + 1]

InsertContestsStmt_StopAtConflict(table, values) ==
    StopAtConflict(table, [i \in 1..Len(values) |-> ContestToRow(values[i])])

\* Mutant (C15): a conflict is a stored row equal in every column, so that a
\* record whose id is stored with other columns is inserted next to it.
InsertContestsStmt_ConflictOnWholeRow(table, values) ==
    LET rows == {ContestToRow(values[i]) : i \in DOMAIN values}
    IN [table |-> table \cup rows, count |-> Cardinality(rows \ table)]

\* insert_into(contests::table).values(values).on_conflict(contests::id)
\*     .do_nothing().execute(&conn)
InsertContestsStmt(table, values) ==
    OnConflictDoNothing(table, [i \in 1..Len(values) |-> ContestToRow(values[i])])

\* Mutant (C20): a record whose id is stored removes the stored row instead
\* of leaving it.
InsertProblemsStmt_DeleteOnConflict(table, values) ==
    LET rows == {ProblemToRow(values[i]) : i \in DOMAIN values}
        clash == {t \in table : \E r \in rows : r[1] = t[1]}
        fresh == {r \in rows : \A t \in table : r[1] # t[1]}
    IN [table |-> (table \ clash) \cup fresh, count |-> Cardinality(fresh)]

\* Mutant (C4): on conflict the stored problem is replaced, the last record
\* of an id winning.
InsertProblemsStmt_LastWins(table, values) ==
    LET rows == [i \in 1..Len(values) |-> ProblemToRow(values[i])]
        last == {rows[i] : i \in {k \in DOMAIN rows :
                                    \A j \in (k + 1)..Len(rows) : rows[j][1] # rows[k][1]}}
        kept == {t \in table : \A r \in last : r[1] # t[1]}
    IN [table |-> kept \cup last, count |-> Cardinality(kept \cup last) - Cardinality(table)]

\* insert_into(problems::table).values(values).on_conflict(problems::id)
\*     .do_nothing().execute(&conn)
InsertProblemsStmt(table, values) ==
    OnConflictDoNothing(table, [i \in 1..Len(values) |-> ProblemToRow(values[i])])

\* The orders in which the store may hand back a set of rows.
Orderings(rows) ==
    { s \in [1..Cardinality(rows) -> rows] : \A r \in rows : \E i \in DOMAIN s : s[i] = r }

\* Mutant (C7): only the first row is loaded.
GetProblemsStmt_FirstOnly(table) ==
    IF table = {} THEN { << >> } ELSE { <<RowToProblem(t)>> : t \in table }

\* problems::dsl::problems.load::<Problem>(&conn)
GetProblemsStmt(table) ==
    { [i \in DOMAIN s |-> RowToProblem(s[i])] : s \in Orderings(table) }

\* contests::dsl::contests.load::<Contest>(&conn)
GetContestsStmt(table) ==
    { [i \in DOMAIN s |-> RowToContest(s[i])] : s \in Orderings(table) }

\* Mutant (C6): the filter is missing.
GetSubmissionsStmt_NoFilter(table, user_id) ==
    { [i \in DOMAIN s |-> RowToSubmission(s[i])] : s \in Orderings(table) }

\* Mutant (C8): the filter compares the wrong column (problem_id).
GetSubmissionsStmt_WrongColumn(table, user_id) ==
    { [i \in DOMAIN s |-> RowToSubmission(s[i])] :
        s \in Orderings({t \in table : t[3] = user_id}) }

\* submissions::dsl::submissions.filter(submissions::user_id.eq(user_id))
\*     .load::<Submission>(&conn)
GetSubmissionsStmt(table, user_id) ==
    { [i \in DOMAIN s |-> RowToSubmission(s[i])] :
        s \in Orderings({t \in table : SubmissionsUserId(t) = user_id}) }

(***************************************************************************)
(* State.  The three tables are sets of rows.  Per caller: where its call  *)
(* stands, the call's arguments and its result.  `before` and `after` keep *)
(* the table a statement ran on as it was right before and right after the *)
(* statement, so that a finished call can be compared with what it did.    *)
(* firstContests and insertedIds are history: the first record inserted by *)
(* an insert_contests statement for each id, and the ids of all records of *)
(* the insert_submissions statements that took effect.                     *)
(***************************************************************************)
VARIABLES contests, problems, submissions,
          pc, call, ret, sessions,
          before, after,
          firstContests, insertedIds

tables == <<contests, problems, submissions>>
history == <<firstContests, insertedIds>>
vars == <<contests, problems, submissions, pc, call, ret, sessions,
          before, after, firstContests, insertedIds>>

NoCall == [op |-> "none", values |-> << >>, user_id |-> ""]
NoRet == [kind |-> "none"]
Count(n) == [kind |-> "count", count |-> n]
Rows(s) == [kind |-> "rows", rows |-> s]
Err(e) == [kind |-> "err", err |-> e]

Init ==
    /\ contests = {} /\ problems = {} /\ submissions = {}
    /\ pc = [c \in Callers |-> "idle"]
    /\ call = [c \in Callers |-> NoCall]
    /\ ret = [c \in Callers |-> NoRet]
    /\ sessions = {}
    /\ before = [c \in Callers |-> {}]
    /\ after = [c \in Callers |-> {}]
    /\ firstContests = {}
    /\ insertedIds = {}

\* Entry of an operation: the caller blocks in self.connect().
Enter(c, op, values, user_id) ==
    /\ pc[c] = "idle"
    /\ pc' = [pc EXCEPT ![c] = "connecting"]
    /\ call' = [call EXCEPT ![c] = [op |-> op, values |-> values, user_id |-> user_id]]
    /\ UNCHANGED <<tables, ret, sessions, before, after, history>>

insert_submissions(c, values) == Enter(c, "insert_submissions", values, "")
insert_contests(c, values) == Enter(c, "insert_contests", values, "")
insert_problems(c, values) == Enter(c, "insert_problems", values, "")
get_problems(c) == Enter(c, "get_problems", << >>, "")
get_contests(c) == Enter(c, "get_contests", << >>, "")
get_submissions(c, user_id) == Enter(c, "get_submissions", << >>, user_id)

\* Mutant (C17): the result of establish is not checked, and a call whose
\* connection attempt failed goes on to its statement.
connect_Unchecked(c) ==
    /\ pc[c] = "connecting"
    /\ pc' = [pc EXCEPT ![c] = "executing"]
    /\ \/ sessions' = sessions \cup {c}
       \/ UNCHANGED sessions
    /\ UNCHANGED <<tables, call, ret, before, after, history>>

\* PgConnection::establish(&url).map_err(..): a session, or the `?` returns
\* the diagnostic at once.
connect(c) ==
    /\ pc[c] = "connecting"
    /\ \/ /\ pc' = [pc EXCEPT ![c] = "executing"]
          /\ sessions' = sessions \cup {c}
          /\ UNCHANGED ret
       \/ /\ pc' = [pc EXCEPT ![c] = "failed"]
          /\ ret' = [ret EXCEPT ![c] = Err("ConnectionError")]
          /\ UNCHANGED sessions
    /\ UNCHANGED <<tables, call, before, after, history>>

\* The function returns: conn goes out of scope and the session is closed.
Finish(c, state, result, tableBefore, tableAfter) ==
    /\ pc' = [pc EXCEPT ![c] = state]
    /\ ret' = [ret EXCEPT ![c] = result]
    /\ sessions' = sessions \ {c}
    /\ before' = [before EXCEPT ![c] = tableBefore]
    /\ after' = [after EXCEPT ![c] = tableAfter]
    /\ UNCHANGED call

Executing(c, op) == pc[c] = "executing" /\ c \in sessions /\ call[c].op = op

\* The statement has run at the store.  Its count comes back, or the reply
\* is lost on the way (the connection breaks while the caller waits: the
\* store does not undo a statement because its client is gone) and
\* .execute(&conn) returns the error although the statement took effect.
Reply(c, result, tableBefore, tableAfter) ==
    \/ Finish(c, "ok", result, tableBefore, tableAfter)
    \/ Finish(c, "failed", Err("DatabaseError"), tableBefore, tableAfter)

ExecInsertSubmissions(c) ==
    /\ Executing(c, "insert_submissions")
    /\ LET r == InsertSubmissionsStmt(submissions, call[c].values)
       IN /\ submissions' = r.table
          /\ IF r.error
             THEN /\ Finish(c, "failed", Err("DatabaseError"), submissions, r.table)
                  /\ UNCHANGED insertedIds
             ELSE /\ Reply(c, Count(r.count), submissions, r.table)
                  /\ insertedIds' = insertedIds \cup
                                        {call[c].values[i].id : i \in DOMAIN call[c].values}
    /\ UNCHANGED <<contests, problems, firstContests>>

\* The records of a batch that are the first seen for their id.
FirstSeen(seen, values) ==
    { values[i] : i \in { k \in DOMAIN values :
                            /\ \A f \in seen : f.id # values[k].id
                            /\ \A j \in 1..(k - 1) : values[j].id # values[k].id } }

ExecInsertContests(c) ==
    /\ Executing(c, "insert_contests")
    /\ LET r == InsertContestsStmt(contests, call[c].values)
       IN /\ contests' = r.table
          /\ Reply(c, Count(r.count), contests, r.table)
    /\ firstContests' = firstContests \cup FirstSeen(firstContests, call[c].values)
    /\ UNCHANGED <<problems, submissions, insertedIds>>

\* Mutant (C16): problems refer to contests, and a problem of a contest that
\* is not stored is rejected.
ExecInsertProblems_RequiresContest(c) ==
    /\ Executing(c, "insert_problems")
    /\ LET r == InsertProblemsStmt(problems, call[c].values)
           known == \A i \in DOMAIN call[c].values :
                        call[c].values[i].contest_id \in {ContestsId(t) : t \in contests}
       IN IF known
          THEN /\ problems' = r.table
               /\ Reply(c, Count(r.count), problems, r.table)
          ELSE /\ problems' = problems
               /\ Finish(c, "failed", Err("DatabaseError"), problems, problems)
    /\ UNCHANGED <<contests, submissions, firstContests, insertedIds>>

ExecInsertProblems(c) ==
    /\ Executing(c, "insert_problems")
    /\ LET r == InsertProblemsStmt(problems, call[c].values)
       IN /\ problems' = r.table
          /\ Reply(c, Count(r.count), problems, r.table)
    /\ UNCHANGED <<contests, submissions, history>>

ExecGetProblems(c) ==
    /\ Executing(c, "get_problems")
    /\ \E s \in GetProblemsStmt(problems) : Finish(c, "ok", Rows(s), problems, problems)
    /\ UNCHANGED <<tables, history>>

ExecGetContests(c) ==
    /\ Executing(c, "get_contests")
    /\ \E s \in GetContestsStmt(contests) : Finish(c, "ok", Rows(s), contests, contests)
    /\ UNCHANGED <<tables, history>>

\* Mutant (C19): the rows that are returned are taken out of the table.
ExecGetSubmissions_TakesRows(c) ==
    /\ Executing(c, "get_submissions")
    /\ \E s \in GetSubmissionsStmt(submissions, call[c].user_id) :
           /\ submissions' = {t \in submissions : SubmissionsUserId(t) # call[c].user_id}
           /\ Finish(c, "ok", Rows(s), submissions, submissions')
    /\ UNCHANGED <<contests, problems, history>>

ExecGetSubmissions(c) ==
    /\ Executing(c, "get_submissions")
    /\ \E s \in GetSubmissionsStmt(submissions, call[c].user_id) :
           Finish(c, "ok", Rows(s), submissions, submissions)
    /\ UNCHANGED <<tables, history>>

\* Mutant (C18): the session is closed on the success path only, and a
\* failed statement leaves it open.
ExecErr_KeepsSession(c) ==
    /\ pc[c] = "executing" /\ c \in sessions
    /\ pc' = [pc EXCEPT ![c] = "failed"]
    /\ ret' = [ret EXCEPT ![c] = Err("DatabaseError")]
    /\ UNCHANGED <<tables, sessions, call, before, after, history>>

\* .execute / .load fails before the statement takes effect (rejected by the
\* store, connection lost before it ran), or a query's rows never arrive: the
\* tables are untouched and the diagnostic is returned.
ExecErr(c) ==
    /\ pc[c] = "executing" /\ c \in sessions
    /\ pc' = [pc EXCEPT ![c] = "failed"]
    /\ ret' = [ret EXCEPT ![c] = Err("DatabaseError")]
    /\ sessions' = sessions \ {c}
    /\ UNCHANGED <<tables, call, before, after, history>>

\* The caller takes the result and is free to call again.
Return(c) ==
    /\ pc[c] \in {"ok", "failed"}
    /\ pc' = [pc EXCEPT ![c] = "idle"]
    /\ call' = [call EXCEPT ![c] = NoCall]
    /\ ret' = [ret EXCEPT ![c] = NoRet]
    /\ before' = [before EXCEPT ![c] = {}]
    /\ after' = [after EXCEPT ![c] = {}]
    /\ UNCHANGED <<tables, sessions, history>>

Steps(c) == connect(c) \/ ExecErr(c) \/ Return(c)

NextSubmissions ==
    \E c \in Callers :
        \/ \E values \in Batches(Submissions) : insert_submissions(c, values)
        \/ \E u \in UserIds \cup {UnknownUser} : get_submissions(c, u)
        \/ ExecInsertSubmissions(c)
        \/ ExecGetSubmissions(c)
        \/ Steps(c)

NextCatalog ==
    \E c \in Callers :
        \/ \E values \in Batches(Contests) : insert_contests(c, values)
        \/ \E values \in Batches(Problems) : insert_problems(c, values)
        \/ get_contests(c)
        \/ get_problems(c)
        \/ ExecInsertContests(c)
        \/ ExecInsertProblems(c)
        \/ ExecGetContests(c)
        \/ ExecGetProblems(c)
        \/ Steps(c)

Next == NextSubmissions \/ NextCatalog

\* The whole repository.
Spec == Init /\ [][Next]_vars

\* The repository used for submissions only, and for contests and problems
\* only: no operation of one reads or writes a table of the other.
SpecSubmissions == Init /\ [][NextSubmissions]_vars
SpecCatalog == Init /\ [][NextCatalog]_vars

(***************************************************************************)
(* The whole repository on fewer records: all six operations of one        *)
(* caller, with batches over three records per table (an id seen twice     *)
(* with different fields, and a second id).                                *)
(***************************************************************************)
\* The three tables as one value.
Store == [contests |-> contests, problems |-> problems, submissions |-> submissions]

\* The store left by the statement of insert operation op on batch values.
Upsert(store, op, values) ==
    CASE op = "insert_submissions" ->
             [store EXCEPT !.submissions = InsertSubmissionsStmt(@, values).table]
      [] op = "insert_contests" ->
             [store EXCEPT !.contests = InsertContestsStmt(@, values).table]
      [] op = "insert_problems" ->
             [store EXCEPT !.problems = InsertProblemsStmt(@, values).table]

CoreSubmissions ==
    { s \in Submissions :
        \/ s.id = 1 /\ s.user_id = "kenkoooo" /\ s.execution_time = << >>
        \/ s.id = 1 /\ s.user_id = "ooooknek" /\ s.execution_time = <<10>>
        \/ s.id = 2 /\ s.user_id = "kenkoooo" /\ s.execution_time = << >> }

CoreContests == { c \in Contests : c.id = "arc001" \/ c.title = "Contest 2" }

CoreProblems == { p \in Problems : p.id = "arc001_a" \/ p.title = "Problem 2" }

NextRepository ==
    \E c \in Callers :
        \/ \E values \in Batches(CoreSubmissions) : insert_submissions(c, values)
        \/ \E values \in Batches(CoreContests) : insert_contests(c, values)
        \/ \E values \in Batches(CoreProblems) : insert_problems(c, values)
        \/ get_problems(c)
        \/ get_contests(c)
        \/ \E u \in UserIds \cup {UnknownUser} : get_submissions(c, u)
        \/ ExecInsertSubmissions(c)
        \/ ExecInsertContests(c)
        \/ ExecInsertProblems(c)
        \/ ExecGetProblems(c)
        \/ ExecGetContests(c)
        \/ ExecGetSubmissions(c)
        \/ Steps(c)

SpecRepository == Init /\ [][NextRepository]_vars

(***************************************************************************)
(* Concurrent callers.  The SqlClient holds only its four configuration    *)
(* strings, so independent callers may run operations at the same time;    *)
(* each statement still takes effect in one step at the store.  Two        *)
(* callers, every operation, one-record batches over records that share an *)
(* id.                                                                     *)
(***************************************************************************)
ConcurrentCallers == {"scraper", "crawler"}

OneRecord(S) == { <<x>> : x \in S }

SharedSubmissions == { s \in CoreSubmissions : s.id = 1 }
SharedContests == { c \in Contests : c.id = "arc001" }
SharedProblems == { p \in Problems : p.id = "arc001_a" }

InitConcurrent ==
    /\ contests = {} /\ problems = {} /\ submissions = {}
    /\ pc = [c \in ConcurrentCallers |-> "idle"]
    /\ call = [c \in ConcurrentCallers |-> NoCall]
    /\ ret = [c \in ConcurrentCallers |-> NoRet]
    /\ sessions = {}
    /\ before = [c \in ConcurrentCallers |-> {}]
    /\ after = [c \in ConcurrentCallers |-> {}]
    /\ firstContests = {}
    /\ insertedIds = {}

NextConcurrent ==
    \E c \in ConcurrentCallers :
        \/ \E values \in OneRecord(SharedSubmissions) : insert_submissions(c, values)
        \/ \E values \in OneRecord(SharedContests) : insert_contests(c, values)
        \/ \E values \in OneRecord(SharedProblems) : insert_problems(c, values)
        \/ get_problems(c)
        \/ get_contests(c)
        \/ \E u \in {"kenkoooo"} : get_submissions(c, u)
        \/ ExecInsertSubmissions(c)
        \/ ExecInsertContests(c)
        \/ ExecInsertProblems(c)
        \/ ExecGetProblems(c)
        \/ ExecGetContests(c)
        \/ ExecGetSubmissions(c)
        \/ Steps(c)

SpecConcurrent == InitConcurrent /\ [][NextConcurrent]_vars

(***************************************************************************)
(* Properties.                                                             *)
(***************************************************************************)

\* Caller c's call of op has returned Ok.
FinishedOk(c, op) == pc[c] = "ok" /\ call[c].op = op

SubmissionIdsOf(table) == {SubmissionsId(t) : t \in table}

\* C1: a successful insert_submissions whose batch holds a record with the id
\* of a stored row leaves exactly that row changed in user_id alone: the row
\* stored afterwards under the id is the prior row with user_id set to the
\* incoming record's user_id, whatever the incoming record's other fields are.
C1_ConflictUpdatesOnlyUserId ==
    \A c \in Callers :
        FinishedOk(c, "insert_submissions") =>
            \A old \in before[c] : \A i \in DOMAIN call[c].values :
                LET v == call[c].values[i]
                    stored == {t \in after[c] : SubmissionsId(t) = v.id}
                IN v.id = SubmissionsId(old) =>
                       /\ stored # {}
                       /\ \A new \in stored :
                              RowToSubmission(new) =
                                  [RowToSubmission(old) EXCEPT !.user_id = v.user_id]

\* C1 witness: a successful call carried a record whose id was stored, with
\* another user_id and another result than the stored row's.
C1_Witness ==
    \E c \in Callers :
        /\ FinishedOk(c, "insert_submissions")
        /\ \E old \in before[c] : \E i \in DOMAIN call[c].values :
               LET v == call[c].values[i]
               IN /\ v.id = SubmissionsId(old)
                  /\ v.user_id # RowToSubmission(old).user_id
                  /\ v.result # RowToSubmission(old).result
                  /\ v.execution_time # RowToSubmission(old).execution_time

\* Whether sequence s holds a submission of the given id, and how often.
Occurrences(s, id) == Cardinality({i \in DOMAIN s : s[i].id = id})

\* C2: when a stored row of id X with user_id U1 is met by a successful
\* insert_submissions of a record with id X and user_id U2 # U1, one row of id
\* X remains, get_submissions(U1) no longer returns it and get_submissions(U2)
\* returns it exactly once.
C2_ReassignedSubmission ==
    \A c \in Callers :
        FinishedOk(c, "insert_submissions") =>
            \A old \in before[c] : \A i \in DOMAIN call[c].values :
                LET v == call[c].values[i]
                    u1 == SubmissionsUserId(old)
                IN (v.id = SubmissionsId(old) /\ v.user_id # u1) =>
                       /\ Cardinality({t \in after[c] : SubmissionsId(t) = v.id}) = 1
                       /\ \A s \in GetSubmissionsStmt(after[c], u1) : Occurrences(s, v.id) = 0
                       /\ \A s \in GetSubmissionsStmt(after[c], v.user_id) :
                              Occurrences(s, v.id) = 1

\* C2 witness: the only stored row, of user U1, was re-inserted under U2;
\* nothing is left for U1 and one submission is returned for U2.
C2_Witness ==
    \E c \in Callers :
        /\ FinishedOk(c, "insert_submissions")
        /\ Len(call[c].values) = 1
        /\ \E old \in before[c] :
               /\ before[c] = {old}
               /\ call[c].values[1].id = SubmissionsId(old)
               /\ call[c].values[1].user_id # SubmissionsUserId(old)
               /\ GetSubmissionsStmt(after[c], SubmissionsUserId(old)) = { << >> }
               /\ \A s \in GetSubmissionsStmt(after[c], call[c].values[1].user_id) : Len(s) = 1

\* C3: a contest row, once stored, is in the table unchanged in every later
\* state, and the stored contests are exactly the first records successfully
\* inserted for their ids.
C3_ContestsFrozen ==
    /\ [][\A r \in contests : r \in contests']_vars
    /\ []({RowToContest(r) : r \in contests} = firstContests)

\* C3 witness: a successful insert_contests carried a record whose id was
\* stored with other fields.
C3_Witness ==
    \E c \in Callers :
        /\ FinishedOk(c, "insert_contests")
        /\ \E old \in before[c] : \E i \in DOMAIN call[c].values :
               /\ call[c].values[i].id = ContestsId(old)
               /\ ContestToRow(call[c].values[i]) # old

\* C4: running insert_problems again with the batch of a successful call
\* leaves the table as the first call left it, and every row stored before
\* the call is stored unchanged after it.
C4_InsertProblemsIdempotent ==
    \A c \in Callers :
        FinishedOk(c, "insert_problems") =>
            /\ InsertProblemsStmt(after[c], call[c].values).table = after[c]
            /\ \A old \in before[c] : old \in after[c]

\* C4 witness: a successful insert_problems added a row and also carried a
\* record with a stored id and other fields.
C4_Witness ==
    \E c \in Callers :
        /\ FinishedOk(c, "insert_problems")
        /\ after[c] # before[c]
        /\ \E old \in before[c] : \E i \in DOMAIN call[c].values :
               /\ call[c].values[i].id = ProblemsId(old)
               /\ ProblemToRow(call[c].values[i]) # old

\* C5: the submissions table holds as many rows as distinct ids were passed
\* to insert_submissions statements that took effect; inserting [b] into a table that
\* holds the one row a, a # b, yields two rows.
C5_RowPerInsertedId ==
    /\ Cardinality(submissions) = Cardinality(insertedIds)
    /\ \A c \in Callers :
           ( /\ FinishedOk(c, "insert_submissions")
             /\ Len(call[c].values) = 1
             /\ Cardinality(before[c]) = 1
             /\ call[c].values[1].id \notin SubmissionIdsOf(before[c]) )
           => Cardinality(after[c]) = 2

\* C5 witness: [b] was inserted after [a] and two rows are stored.
C5_Witness ==
    \E c \in Callers :
        /\ FinishedOk(c, "insert_submissions")
        /\ Len(call[c].values) = 1
        /\ Cardinality(before[c]) = 1
        /\ call[c].values[1].id \notin SubmissionIdsOf(before[c])
        /\ Cardinality(submissions) = 2
        /\ insertedIds = SubmissionIds

\* The elements of a sequence.
Range(s) == {s[i] : i \in DOMAIN s}

\* C6: a successful get_submissions(u) returns the stored submissions whose
\* user_id is u, each once and no other; with no such row it returns the empty
\* sequence.
C6_GetSubmissionsExact ==
    \A c \in Callers :
        FinishedOk(c, "get_submissions") =>
            LET stored == {RowToSubmission(t) : t \in before[c]}
                wanted == {s \in stored : s.user_id = call[c].user_id}
            IN /\ ret[c].kind = "rows"
               /\ Range(ret[c].rows) = wanted
               /\ Len(ret[c].rows) = Cardinality(wanted)

\* C6 witness: get_submissions returned one user's submission while a row of
\* another user was stored.
C6_Witness ==
    \E c \in Callers :
        /\ FinishedOk(c, "get_submissions")
        /\ Len(ret[c].rows) = 1
        /\ \E t \in submissions : SubmissionsUserId(t) # call[c].user_id

\* C7: get_problems (get_contests) returns every stored row once, decoded;
\* after insert_problems([p]) (insert_contests([p])) into the empty table it
\* returns the one-element sequence <<p>>.
C7_GetAllRoundTrip ==
    \A c \in Callers :
        /\ FinishedOk(c, "get_problems") =>
               /\ ret[c].kind = "rows"
               /\ Range(ret[c].rows) = {RowToProblem(t) : t \in before[c]}
               /\ Len(ret[c].rows) = Cardinality(before[c])
        /\ FinishedOk(c, "get_contests") =>
               /\ ret[c].kind = "rows"
               /\ Range(ret[c].rows) = {RowToContest(t) : t \in before[c]}
               /\ Len(ret[c].rows) = Cardinality(before[c])
        /\ (FinishedOk(c, "insert_problems") /\ before[c] = {} /\ Len(call[c].values) = 1)
               => GetProblemsStmt(after[c]) = { <<call[c].values[1]>> }
        /\ (FinishedOk(c, "insert_contests") /\ before[c] = {} /\ Len(call[c].values) = 1)
               => GetContestsStmt(after[c]) = { <<call[c].values[1]>> }

\* C7 witness: get_problems returned the single stored problem.
C7_Witness ==
    \E c \in Callers :
        /\ FinishedOk(c, "get_problems")
        /\ Cardinality(problems) = 1
        /\ Len(ret[c].rows) = 1
        /\ ret[c].rows[1] \in Problems

\* C8: after a successful insert_submissions([s]) of an id not stored before,
\* get_submissions(s.user_id) returns s, equal in every field, exactly once.
C8_SubmissionRoundTrip ==
    \A c \in Callers :
        ( /\ FinishedOk(c, "insert_submissions")
          /\ Len(call[c].values) = 1
          /\ call[c].values[1].id \notin SubmissionIdsOf(before[c]) )
        => \A s \in GetSubmissionsStmt(after[c], call[c].values[1].user_id) :
               Cardinality({i \in DOMAIN s : s[i] = call[c].values[1]}) = 1

\* C8 witness: a submission with execution_time Some(10) was inserted next to
\* a stored one of the same user with execution_time None.
C8_Witness ==
    \E c \in Callers :
        /\ FinishedOk(c, "insert_submissions")
        /\ Len(call[c].values) = 1
        /\ call[c].values[1].id \notin SubmissionIdsOf(before[c])
        /\ call[c].values[1].execution_time = <<10>>
        /\ \E t \in before[c] :
               /\ SubmissionsUserId(t) = call[c].values[1].user_id
               /\ RowToSubmission(t).execution_time = << >>

\* C9: a successful insert_contests or insert_problems returns the number of
\* rows by which its table grew.
C9_CountIsRowsAdded ==
    \A c \in Callers :
        (FinishedOk(c, "insert_contests") \/ FinishedOk(c, "insert_problems")) =>
            ret[c] = Count(Cardinality(after[c]) - Cardinality(before[c]))

\* C9 witness: a batch of two contests, one with a stored id, returned 1.
C9_Witness ==
    \E c \in Callers :
        /\ FinishedOk(c, "insert_contests")
        /\ Len(call[c].values) = 2
        /\ call[c].values[1].id # call[c].values[2].id
        /\ \E old \in before[c] : \E i \in DOMAIN call[c].values :
               call[c].values[i].id = ContestsId(old)
        /\ ret[c] = Count(1)

\* Whether the records of a batch have pairwise distinct ids.
DistinctIds(values) ==
    \A i, j \in DOMAIN values : i # j => values[i].id # values[j].id

\* C10: a successful insert_submissions of a batch with pairwise distinct ids
\* returns the length of the batch, whether the ids were stored or not.
C10_CountIsBatchLength ==
    \A c \in Callers :
        (FinishedOk(c, "insert_submissions") /\ DistinctIds(call[c].values)) =>
            ret[c] = Count(Len(call[c].values))

\* C10 witness: a batch of one stored and one new id returned 2, the stored
\* row already having the incoming user_id.
C10_Witness ==
    \E c \in Callers :
        /\ FinishedOk(c, "insert_submissions")
        /\ Len(call[c].values) = 2
        /\ Cardinality(before[c]) = 1
        /\ Cardinality(after[c]) = 2
        /\ \E old \in before[c] : \E i \in DOMAIN call[c].values :
               /\ call[c].values[i].id = SubmissionsId(old)
               /\ call[c].values[i].user_id = SubmissionsUserId(old)
        /\ ret[c] = Count(2)

\* The caller whose call a step belongs to: every step moves one caller.
Moves(c) == pc'[c] # pc[c]

InsertOps == {"insert_submissions", "insert_contests", "insert_problems"}
ReadOps == {"get_problems", "get_contests", "get_submissions"}

\* The tables other than the one operation op writes are left alone.
OtherTablesUnchanged(op) ==
    CASE op = "insert_submissions" -> UNCHANGED <<contests, problems>>
      [] op = "insert_contests" -> UNCHANGED <<problems, submissions>>
      [] op = "insert_problems" -> UNCHANGED <<contests, submissions>>
      [] OTHER -> UNCHANGED tables

\* Every record of the batch is in the table: its id is stored (for
\* submissions under the record's user_id).
WholeBatchStored(op, values, table) ==
    \A i \in DOMAIN values :
        \E t \in table :
            /\ t[1] = values[i].id
            /\ op = "insert_submissions" => SubmissionsUserId(t) = values[i].user_id

FirstThenLast(c1, c2, op) ==
    /\ c1 # c2
    /\ FinishedOk(c1, op) /\ FinishedOk(c2, op)
    /\ Len(call[c1].values) = 1 /\ Len(call[c2].values) = 1
    /\ call[c1].values[1].id = call[c2].values[1].id
    /\ call[c1].values[1].id \notin {t[1] : t \in before[c1]}
    /\ call[c2].values[1].id \in {t[1] : t \in before[c2]}

RowsWithId(table, id) == {t \in table : t[1] = id}

\* C12: when two callers upsert records of one id into a store that lacked
\* the id, exactly one row is stored under it: for submissions the record of
\* the writer that took effect first with the user_id of the writer that took
\* effect last, for contests and problems the record of the first writer.
C12_ConcurrentUpsertsWellDefined ==
    \A c1 \in DOMAIN pc : \A c2 \in DOMAIN pc :
        /\ FirstThenLast(c1, c2, "insert_submissions") =>
               RowsWithId(submissions, call[c1].values[1].id) =
                   {SubmissionToRow([call[c1].values[1] EXCEPT
                                         !.user_id = call[c2].values[1].user_id])}
        /\ FirstThenLast(c1, c2, "insert_contests") =>
               RowsWithId(contests, call[c1].values[1].id) =
                   {ContestToRow(call[c1].values[1])}
        /\ FirstThenLast(c1, c2, "insert_problems") =>
               RowsWithId(problems, call[c1].values[1].id) =
                   {ProblemToRow(call[c1].values[1])}

\* C12 witness: two callers have both inserted a submission of the same id,
\* differing in user_id and in execution_time, the second statement taking
\* effect right after the first and before the first caller went on.
C12_Witness ==
    \E c1 \in DOMAIN pc : \E c2 \in DOMAIN pc :
        /\ FirstThenLast(c1, c2, "insert_submissions")
        /\ call[c1].values[1].user_id # call[c2].values[1].user_id
        /\ call[c1].values[1].execution_time # call[c2].values[1].execution_time
        /\ before[c2] = after[c1]
        /\ submissions = after[c2]

EmptyInsertSubmissions(c) ==
    call[c].op = "insert_submissions" /\ call[c].values = << >>

\* C13 (as claimed): insert_submissions called with an empty batch returns
\* zero, never an error.
C13_EmptyBatchReturnsZero ==
    \A c \in DOMAIN pc :
        (EmptyInsertSubmissions(c) /\ pc[c] \in {"ok", "failed"}) =>
            ret[c] = Count(0)

\* C13 (amended): insert_submissions called with an empty batch opens a
\* session first and then issues a statement that does nothing; once the
\* session is open that statement raises no error of its own, a call that
\* returns Ok returns zero, and no step of the call changes any table. (The
\* call returns an error when the session cannot be opened or is lost.)
C13_EmptyBatchIsNoOp ==
    /\ [](\A c \in DOMAIN pc :
              /\ (EmptyInsertSubmissions(c) /\ pc[c] = "executing") =>
                     /\ c \in sessions
                     /\ ~InsertSubmissionsStmt(submissions, call[c].values).error
                     /\ ENABLED (ExecInsertSubmissions(c) /\ ret'[c] = Count(0))
              /\ (EmptyInsertSubmissions(c) /\ pc[c] = "ok") => ret[c] = Count(0)
              /\ (EmptyInsertSubmissions(c) /\ pc[c] = "failed") => ret[c].kind = "err")
    /\ [][\A c \in DOMAIN pc :
              (Moves(c) /\ (EmptyInsertSubmissions(c) \/ EmptyInsertSubmissions(c)'))
                  => tables' = tables]_vars

\* C13 witness: insert_submissions of an empty batch has returned zero from a
\* store that holds submissions, which it left as they were.
C13_Witness ==
    \E c \in DOMAIN pc :
        /\ FinishedOk(c, "insert_submissions")
        /\ call[c].values = << >>
        /\ ret[c] = Count(0)
        /\ before[c] # {} /\ after[c] = before[c] /\ submissions = before[c]

\* The batches that hold the records of values in some order.
Reorderings(values) ==
    { [i \in DOMAIN values |-> values[f[i]]] :
          f \in { g \in [DOMAIN values -> DOMAIN values] :
                      \A i \in DOMAIN values : \A j \in DOMAIN values :
                          g[i] = g[j] => i = j } }

\* Records of the batch that share an id are the same record.
SameIdSameRecord(values) ==
    \A i \in DOMAIN values : \A j \in DOMAIN values :
        values[i].id = values[j].id => values[i] = values[j]

\* insert_submissions: the statement about to run does the same on every
\* permutation of the batch, and a call that returned Ok would have stored the
\* same table and returned the same count on every permutation.
SubmissionsOrderUnobservable(c) ==
    /\ (pc[c] = "executing" /\ call[c].op = "insert_submissions") =>
           \A p \in Reorderings(call[c].values) :
               InsertSubmissionsStmt(submissions, p) =
                   InsertSubmissionsStmt(submissions, call[c].values)
    /\ FinishedOk(c, "insert_submissions") =>
           \A p \in Reorderings(call[c].values) :
               InsertSubmissionsStmt(before[c], p) =
                   [error |-> FALSE, table |-> after[c], count |-> ret[c].count]

ContestsOrderUnobservable(c) ==
    FinishedOk(c, "insert_contests") =>
        \A p \in Reorderings(call[c].values) :
            InsertContestsStmt(before[c], p) =
                [table |-> after[c], count |-> ret[c].count]

ProblemsOrderUnobservable(c) ==
    FinishedOk(c, "insert_problems") =>
        \A p \in Reorderings(call[c].values) :
            InsertProblemsStmt(before[c], p) =
                [table |-> after[c], count |-> ret[c].count]

\* C14 (as claimed): for every store state, every batch and every permutation
\* of the batch, each upsert yields the same count or the same failure and the
\* same table on the permuted batch, batches in which two records share an id
\* included.
C14_OrderNeverObservable ==
    \A c \in DOMAIN pc :
        /\ SubmissionsOrderUnobservable(c)
        /\ ContestsOrderUnobservable(c)
        /\ ProblemsOrderUnobservable(c)

\* C14 (amended): insert_submissions yields the same count or the same
\* failure and the same table on every permutation of every batch (a batch in
\* which two records share an id fails in every order); insert_contests and
\* insert_problems do so for the batches whose records of one id are equal,
\* and otherwise store, of the records of a new id, the one that comes first
\* in the batch.
C14_OrderUnobservableUnlessIdsClash ==
    \A c \in DOMAIN pc :
        /\ SubmissionsOrderUnobservable(c)
        /\ (pc[c] = "executing" /\ call[c].op = "insert_submissions"
                /\ ~DistinctIds(call[c].values)) =>
               InsertSubmissionsStmt(submissions, call[c].values) =
                   [error |-> TRUE, table |-> submissions, count |-> 0]
        /\ SameIdSameRecord(call[c].values) =>
               ContestsOrderUnobservable(c) /\ ProblemsOrderUnobservable(c)
        /\ FinishedOk(c, "insert_contests") =>
               \A i \in DOMAIN call[c].values :
                   ( /\ call[c].values[i].id \notin {ContestsId(t) : t \in before[c]}
                     /\ \A j \in 1..(i - 1) : call[c].values[j].id # call[c].values[i].id )
                   => ContestToRow(call[c].values[i]) \in after[c]
        /\ FinishedOk(c, "insert_problems") =>
               \A i \in DOMAIN call[c].values :
                   ( /\ call[c].values[i].id \notin {ProblemsId(t) : t \in before[c]}
                     /\ \A j \in 1..(i - 1) : call[c].values[j].id # call[c].values[i].id )
                   => ProblemToRow(call[c].values[i]) \in after[c]

\* C14 witness: insert_contests stored two contests of different ids from one
\* batch into a table that held neither, so that the batch has a permutation
\* other than itself and both of its records were inserted.
C14_Witness ==
    \E c \in DOMAIN pc :
        /\ FinishedOk(c, "insert_contests")
        /\ Len(call[c].values) = 2
        /\ call[c].values[1].id # call[c].values[2].id
        /\ ret[c] = Count(2)
        /\ Cardinality(after[c]) = Cardinality(before[c]) + 2

\* C15: in every reachable state, whatever the operations called and however
\* the calls of concurrent callers interleave, two rows of one table that
\* carry the same id are the same row.
C15_PrimaryKeysUnique ==
    /\ \A t1 \in contests : \A t2 \in contests :
           RowToContest(t1).id = RowToContest(t2).id => t1 = t2
    /\ \A t1 \in problems : \A t2 \in problems :
           RowToProblem(t1).id = RowToProblem(t2).id => t1 = t2
    /\ \A t1 \in submissions : \A t2 \in submissions :
           RowToSubmission(t1).id = RowToSubmission(t2).id => t1 = t2

\* C15 witness: two callers have each run insert_contests with success, on
\* different contests of one id; the first inserted its row, the second
\* inserted none, and the table holds one row.
C15_Witness ==
    \E c1 \in DOMAIN pc : \E c2 \in DOMAIN pc :
        /\ c1 # c2
        /\ FinishedOk(c1, "insert_contests") /\ FinishedOk(c2, "insert_contests")
        /\ call[c1].values # << >> /\ call[c2].values # << >>
        /\ call[c1].values[1].id = call[c2].values[1].id
        /\ call[c1].values[1] # call[c2].values[1]
        /\ ret[c1] = Count(1) /\ ret[c2] = Count(0)
        /\ Cardinality(contests) = 1

\* The store after the insert operations of the sequence calls (records of op
\* and values), run one after the other from store.
RECURSIVE UpsertAll(_, _)
UpsertAll(store, calls) ==
    IF calls = << >> THEN store
    ELSE UpsertAll(Upsert(store, Head(calls).op, Head(calls).values), Tail(calls))

InsertCall(op, values) == [op |-> op, values |-> values]

\* Whatever the order in which the three calls are made, the store they leave
\* is the same.
AnyOrderSameStore(store, s, k, p) ==
    \A order \in Reorderings(<<s, k, p>>) :
        UpsertAll(store, order) = UpsertAll(store, <<s, k, p>>)

\* C16: the store checks no reference between tables and the three upserts are
\* independent. (1) A statement of insert_problems about to run can succeed
\* and store its batch whatever contests holds, and one of insert_submissions
\* on distinct ids whatever problems and contests hold. (2) A step of an
\* insert call leaves the other two tables alone, and its statement's effect
\* is that of Upsert on the call's own table. (3) From every store reached,
\* the call under way and one-record calls of the other two upserts leave the
\* same store in each of the six orders.
C16_UpsertsIndependent ==
    /\ [](\A c \in DOMAIN pc :
              /\ (pc[c] = "executing" /\ call[c].op = "insert_problems") =>
                     ENABLED ( /\ ExecInsertProblems(c)
                               /\ pc'[c] = "ok"
                               /\ WholeBatchStored("insert_problems", call[c].values, problems') )
              /\ (pc[c] = "executing" /\ call[c].op = "insert_submissions"
                      /\ DistinctIds(call[c].values)) =>
                     ENABLED ( /\ ExecInsertSubmissions(c)
                               /\ pc'[c] = "ok"
                               /\ WholeBatchStored("insert_submissions", call[c].values,
                                                   submissions') )
              /\ (pc[c] = "executing" /\ call[c].op = "insert_submissions") =>
                     \A k \in OneRecord(SharedContests) : \A p \in OneRecord(SharedProblems) :
                         AnyOrderSameStore(Store,
                                           InsertCall("insert_submissions", call[c].values),
                                           InsertCall("insert_contests", k),
                                           InsertCall("insert_problems", p))
              /\ (pc[c] = "executing" /\ call[c].op = "insert_contests") =>
                     \A b \in OneRecord(SharedSubmissions) : \A p \in OneRecord(SharedProblems) :
                         AnyOrderSameStore(Store,
                                           InsertCall("insert_submissions", b),
                                           InsertCall("insert_contests", call[c].values),
                                           InsertCall("insert_problems", p))
              /\ (pc[c] = "executing" /\ call[c].op = "insert_problems") =>
                     \A b \in OneRecord(SharedSubmissions) : \A k \in OneRecord(SharedContests) :
                         AnyOrderSameStore(Store,
                                           InsertCall("insert_submissions", b),
                                           InsertCall("insert_contests", k),
                                           InsertCall("insert_problems", call[c].values)))
    /\ [][\A c \in DOMAIN pc :
              (Moves(c) /\ call'[c].op \in InsertOps) =>
                  /\ OtherTablesUnchanged(call'[c].op)
                  /\ (pc[c] = "executing" /\ tables' # tables) =>
                         Store' = Upsert(Store, call[c].op, call[c].values)]_vars

\* C16 witness: insert_problems has stored a problem whose contest_id is the id
\* of no stored contest, while contests are stored, and insert_submissions has
\* stored a submission whose problem_id is the id of no stored problem.
C16_Witness ==
    \E c \in DOMAIN pc :
        /\ FinishedOk(c, "insert_problems")
        /\ ret[c].count > 0
        /\ contests # {} /\ after[c] = problems
        /\ \E i \in DOMAIN call[c].values :
               /\ ProblemToRow(call[c].values[i]) \in problems \ before[c]
               /\ call[c].values[i].contest_id \notin {ContestsId(t) : t \in contests}
        /\ \E t \in submissions :
               RowToSubmission(t).problem_id \notin {ProblemsId(r) : r \in problems}

\* The moves of a call: IDLE -> CONNECTING -> EXECUTING -> {OK | FAILED},
\* CONNECTING -> FAILED, and back to IDLE when the caller has the result.
CallMoves ==
    { <<"idle", "connecting">>, <<"connecting", "executing">>,
      <<"connecting", "failed">>, <<"executing", "ok">>,
      <<"executing", "failed">>, <<"ok", "idle">>, <<"failed", "idle">> }

\* C17: a call moves IDLE -> CONNECTING -> EXECUTING -> {OK | FAILED} and in
\* no other way (no second attempt after a failure, no way back). It leaves
\* CONNECTING by its one connection attempt, reaching EXECUTING with a session
\* open exactly when the attempt succeeded; a failed attempt takes it to FAILED
\* with no session opened and every table unchanged. A call in FAILED, from
\* either state, holds an error of the one kind the operations return, and a
\* call in OK holds a result.
C17_CallStateMachine ==
    /\ [](\A c \in DOMAIN pc :
              /\ pc[c] \in {"idle", "connecting", "executing", "ok", "failed"}
              /\ pc[c] = "executing" => c \in sessions
              /\ pc[c] \in {"idle", "connecting"} => (c \notin sessions /\ ret[c] = NoRet)
              /\ pc[c] = "failed" => ret[c] \in {Err("ConnectionError"), Err("DatabaseError")}
              /\ pc[c] = "ok" => ret[c].kind \in {"count", "rows"})
    /\ [][\A c \in DOMAIN pc :
              Moves(c) =>
                  /\ <<pc[c], pc'[c]>> \in CallMoves
                  /\ pc[c] # "idle" => call'[c].op \in {call[c].op, "none"}
                  /\ (pc[c] = "connecting" /\ pc'[c] = "executing") =>
                         (c \in sessions' /\ tables' = tables)
                  /\ (pc[c] = "connecting" /\ pc'[c] = "failed") =>
                         /\ tables' = tables
                         /\ sessions' = sessions
                         /\ ret'[c] = Err("ConnectionError")
                  /\ (pc[c] = "executing" /\ pc'[c] = "failed") =>
                         ret'[c] = Err("DatabaseError")]_vars

\* C17 witness: one call has failed in CONNECTING and another in EXECUTING,
\* both holding an error, with rows stored by earlier calls.
C17_Witness ==
    \E c1 \in DOMAIN pc : \E c2 \in DOMAIN pc :
        /\ pc[c1] = "failed" /\ ret[c1] = Err("ConnectionError")
        /\ pc[c2] = "failed" /\ ret[c2] = Err("DatabaseError")
        /\ call[c1].op = "insert_submissions" /\ call[c2].op = "get_submissions"
        /\ submissions # {}
        /\ sessions = {}

\* C18: in every reachable state the open sessions are those of the calls in
\* EXECUTING, one each: a call opens its session when it enters EXECUTING and
\* has closed it when it holds its result, Ok or error; a step of one call
\* opens or closes no session but that call's own; and when no call is under
\* way no session is open.
C18_SessionPerExecutingCall ==
    /\ [](/\ sessions = {c \in DOMAIN pc : pc[c] = "executing"}
          /\ (\A c \in DOMAIN pc : pc[c] \in {"idle", "ok", "failed"}) => sessions = {})
    /\ [][\A c \in DOMAIN pc :
              Moves(c) =>
                  /\ sessions' \ {c} = sessions \ {c}
                  /\ pc'[c] = "executing" => (c \notin sessions /\ c \in sessions')
                  /\ pc[c] = "executing" => (c \in sessions /\ c \notin sessions')]_vars

\* C18 witness: one call is in EXECUTING and holds the only open session,
\* while the other caller's call has failed in EXECUTING and its session is
\* closed.
C18_Witness ==
    \E c1 \in DOMAIN pc : \E c2 \in DOMAIN pc :
        /\ pc[c1] = "executing"
        /\ pc[c2] = "failed" /\ ret[c2] = Err("DatabaseError")
        /\ sessions = {c1}

\* C19: no step of get_problems, get_contests or get_submissions, from the
\* call to the return of its rows or of an error, changes any of the three
\* tables; the tables a read found are the tables it leaves.
C19_ReadsLeaveStoreUnchanged ==
    /\ [][\A c \in DOMAIN pc :
              (Moves(c) /\ (call[c].op \in ReadOps \/ call'[c].op \in ReadOps))
                  => tables' = tables]_vars
    /\ [](\A c \in DOMAIN pc :
              (pc[c] = "ok" /\ call[c].op \in ReadOps) => after[c] = before[c])

\* C19 witness: get_submissions has returned the submissions of a user, and
\* the table it read still holds them and the rows of another user.
C19_Witness ==
    \E c \in DOMAIN pc :
        /\ FinishedOk(c, "get_submissions")
        /\ ret[c].rows # << >>
        /\ before[c] = submissions
        /\ \E t \in submissions : SubmissionsUserId(t) = call[c].user_id
        /\ \E t \in submissions : SubmissionsUserId(t) # call[c].user_id

ContestIdsOf(table) == {RowToContest(t).id : t \in table}
ProblemIdsOf(table) == {RowToProblem(t).id : t \in table}

\* C20: no step of any operation of any caller takes an id out of a table: the
\* ids of contests, of problems and of submissions after a step include those
\* before it, so that an id once stored is stored in every later state.
C20_IdsNeverRemoved ==
    [][/\ ContestIdsOf(contests) \subseteq ContestIdsOf(contests')
       /\ ProblemIdsOf(problems) \subseteq ProblemIdsOf(problems')
       /\ {RowToSubmission(t).id : t \in submissions}
              \subseteq {RowToSubmission(t).id : t \in submissions'}]_vars

\* C20 witness: a problem stored by one caller is still stored after the other
\* caller has run insert_problems on another record of its id and
\* insert_submissions has rewritten a stored submission.
C20_Witness ==
    \E c1 \in DOMAIN pc : \E c2 \in DOMAIN pc :
        /\ c1 # c2
        /\ FinishedOk(c1, "insert_problems") /\ ret[c1] = Count(0)
        /\ before[c1] # {} /\ problems = before[c1]
        /\ ProblemToRow(call[c1].values[1]) \notin problems
        /\ FinishedOk(c2, "insert_submissions")
        /\ before[c2] # {} /\ after[c2] # before[c2]
        /\ Cardinality(submissions) = 1

=============================================================================
